---- MODULE Spec2Model ----
(***************************************************************************)
(* Model of the AutoML TodoList CLI (package automl_todolist): the season  *)
(* and task services, the per-command database transaction, the LP gain    *)
(* calculator and the LP status (decay) engine.                            *)
(*                                                                         *)
(* Conventions                                                             *)
(*  - Time is counted in seconds from an epoch that is 00:00 UTC of a      *)
(*    Monday.  A datetime is a record [wall, off, aware]: wall is the      *)
(*    local wall-clock reading, off the UTC offset of its tzinfo, aware    *)
(*    tells whether it carries a tzinfo at all.                            *)
(*  - Time zones are fixed-offset zones; gettz maps a zone name to its     *)
(*    offset, or to None for a name dateutil cannot resolve.               *)
(*  - Python's None is the empty tuple, a present value x is <<x>>.        *)
(*  - LP amounts are kept in quarter points (LP_SCALE per LP): every gain  *)
(*    is base_points * k / 4 for an integer k, so this is exact.           *)
(***************************************************************************)
EXTENDS Integers, Sequences, FiniteSets, TLC

VARIABLES
    seasons,      \* table "seasons": season id -> Season row
    tasks,        \* table "tasks": task id -> Task row
    now,          \* the clock, seconds since the epoch (UTC)
    outcome,      \* how the last service call ended
    recalc_streak,\* number of successful recalculate_all_lp calls in a row
    backup_file,  \* content of the backup file, None while it does not exist
    lp_task,      \* argument of calculate_lp_gain: the task
    lp_tz,        \* argument of calculate_lp_gain: season_timezone
    lp_result,    \* [done, value] of the calculate_lp_gain call
    status,       \* what the last get_lp_status call computed
    timeseries,   \* what the last get_lp_timeseries_data call computed
    session       \* the database session of the get_db_session call in progress

svcVars == <<seasons, tasks, now, outcome, recalc_streak, backup_file>>
lpVars == <<lp_task, lp_tz, lp_result>>
vars == <<seasons, tasks, now, outcome, recalc_streak, backup_file,
          lp_task, lp_tz, lp_result, status, timeseries, session>>

----
(* Bounds of the model *)

MaxTasks == 1
MaxSeasons == 3
MaxNow == 1
MaxDays == 2
MaxCalls == 2

----
(* Python values *)

None == <<>>

Some(x) == <<x>>

Val(o) == o[1]

Max(a, b) == IF a >= b THEN a ELSE b

MaxOf(S) == CHOOSE x \in S : \A y \in S : y <= x

MinOf(S) == CHOOSE x \in S : \A y \in S : x <= y

\* round(n / d) for n >= 0, d > 0: Python 3 rounds halves to the even neighbour
py_round(n, d) ==
    LET q == n \div d
        r == n % d
    IN  IF 2 * r < d THEN q
        ELSE IF 2 * r > d THEN q + 1
        ELSE IF q % 2 = 0 THEN q ELSE q + 1

----
(* config.py *)

SECONDS_PER_MINUTE == 60
SECONDS_PER_HOUR == 3600
SECONDS_PER_DAY == 24 * 3600

MINUTES_PER_HOUR == 60
ROUNDING_INTERVAL_MINUTES == 15
MIN_DIFFICULTY_LEVEL == 1
MAX_DIFFICULTY_LEVEL == 5
DEFAULT_SEASON_NAME == "Default Season"
DEFAULT_DAILY_DECAY == 56

\* quarter points per LP: MINUTES_PER_HOUR / ROUNDING_INTERVAL_MINUTES
LP_SCALE == MINUTES_PER_HOUR \div ROUNDING_INTERVAL_MINUTES

DIFFICULTY_MAP_INT_TO_STR ==
    [i \in MIN_DIFFICULTY_LEVEL..MAX_DIFFICULTY_LEVEL |->
        CASE i = 1 -> "Easy"
          [] i = 2 -> "Easy-Med"
          [] i = 3 -> "Med"
          [] i = 4 -> "Med-Hard"
          [] i = 5 -> "Hard"]

POINTS_MAP ==
    [d \in {"Easy", "Easy-Med", "Med", "Med-Hard", "Hard"} |->
        CASE d = "Easy" -> 1
          [] d = "Easy-Med" -> 2
          [] d = "Med" -> 4
          [] d = "Med-Hard" -> 8
          [] d = "Hard" -> 16]

DIFFICULTY_NORMALIZATION_MAP == [d \in {"Medium"} |-> "Med"]

----
(* datetime and dateutil *)

\* the fixed-offset zones of the model and their UTC offsets
ZoneOffset ==
    [z \in {"UTC", "Etc/GMT+5", "Asia/Kolkata"} |->
        CASE z = "UTC" -> 0
          [] z = "Etc/GMT+5" -> 0 - 5 * SECONDS_PER_HOUR
          [] z = "Asia/Kolkata" -> 5 * SECONDS_PER_HOUR + 30 * SECONDS_PER_MINUTE]

\* TZ-variable style specifiers, which dateutil reads as tzstr: "UTC+3" is
\* three hours ahead of UTC
TzStrOffset == [s \in {"UTC+3"} |-> 3 * SECONDS_PER_HOUR]

\* gettz() without a name: the offset of the system's local zone
SystemTz == 0

\* dateutil.tz.gettz(name): a zone file of that name, else a TZ-variable style
\* specifier, the local zone for an empty name, None for anything else
gettz(name) ==
    IF name \in DOMAIN ZoneOffset THEN Some(ZoneOffset[name])
    ELSE IF name \in DOMAIN TzStrOffset THEN Some(TzStrOffset[name])
    ELSE IF name = "" THEN Some(SystemTz)
    ELSE None

Aware(wall, off) == [wall |-> wall, off |-> off, aware |-> TRUE]

Naive(wall) == [wall |-> wall, off |-> 0, aware |-> FALSE]

\* datetime.now(tz) read when the clock shows t
datetime_now(t, tz) == Aware(t + tz, tz)

\* dt.replace(tzinfo=tz)
replace_tzinfo(dt, tz) == Aware(dt.wall, tz)

\* dt.astimezone(tz); a naive dt is read as system local time
astimezone(dt, tz) ==
    Aware(dt.wall - (IF dt.aware THEN dt.off ELSE SystemTz) + tz, tz)

\* the instant of an aware dt, in seconds since the epoch (UTC)
utc_seconds(dt) == dt.wall - dt.off

\* dt.date() as a day number and dt.time() as seconds after midnight
date_of(dt) == dt.wall \div SECONDS_PER_DAY

time_of(dt) == dt.wall % SECONDS_PER_DAY

----
(* services.py: LPCalculationService *)

\* Python truth value of an Optional[str]
Truthy(s) == s # None /\ s # Some("")

\* lines 139: POINTS_MAP.get(task.difficulty, 0)
base_points_of(difficulty) ==
    IF Val(difficulty) \in DOMAIN POINTS_MAP THEN POINTS_MAP[Val(difficulty)] ELSE 0

\* a naive datetime is taken to be in season_timezone
localized(dt, season_timezone) ==
    IF dt.aware THEN dt ELSE replace_tzinfo(dt, season_timezone)

duration_seconds_timestamps_first(task, season_timezone) ==
    IF task.start_time # None /\ task.finish_time # None
    THEN utc_seconds(localized(Val(task.finish_time), season_timezone))
         - utc_seconds(localized(Val(task.start_time), season_timezone))
    ELSE IF task.time_taken_minutes # None
    THEN Val(task.time_taken_minutes) * SECONDS_PER_MINUTE
    ELSE 0

\* duration_minutes of calculate_lp_gain, in seconds
duration_seconds(task, season_timezone) ==
    IF task.time_taken_minutes # None
    THEN Val(task.time_taken_minutes) * SECONDS_PER_MINUTE
    ELSE IF task.start_time # None /\ task.finish_time # None
    THEN LET start_dt == localized(Val(task.start_time), season_timezone)
             finish_dt == localized(Val(task.finish_time), season_timezone)
         IN  utc_seconds(finish_dt) - utc_seconds(start_dt)
    ELSE 0

gain_for_duration_floor(base_points, duration) ==
    IF duration > 0
    THEN Some(base_points * (duration \div (ROUNDING_INTERVAL_MINUTES * SECONDS_PER_MINUTE)))
    ELSE Some(0)

gain_for_duration_none(base_points, duration) ==
    IF duration > 0
    THEN Some(base_points
              * py_round(duration, ROUNDING_INTERVAL_MINUTES * SECONDS_PER_MINUTE))
    ELSE None

\* the gain for a duration: base_points * rounded_minutes / MINUTES_PER_HOUR,
\* in quarter points; 0.0 when the duration is not positive
gain_for_duration(base_points, duration) ==
    IF duration > 0
    THEN Some(base_points
              * py_round(duration, ROUNDING_INTERVAL_MINUTES * SECONDS_PER_MINUTE))
    ELSE Some(0)

\* calculate_lp_gain(task, season_timezone)
calculate_lp_gain(task, season_timezone) ==
    IF ~Truthy(task.difficulty) THEN None
    ELSE gain_for_duration(base_points_of(task.difficulty),
                           duration_seconds(task, season_timezone))

----
(* models.py, database.py: rows, sessions, init_database *)

\* the zone datetime.now(DEFAULT_TIMEZONE) uses (America/New_York, standard time)
DEFAULT_TIMEZONE == 0 - 5 * SECONDS_PER_HOUR

\* gettz(): the system's local zone, and str() of it, which names no zone
SystemTzString == "tzlocal()"

\* Column defaults of Season
SeasonRow(name, start_date, timezone_string) ==
    [name |-> name, start_date |-> start_date, end_date |-> None,
     is_active |-> TRUE, daily_decay |-> DEFAULT_DAILY_DECAY,
     timezone_string |-> timezone_string, day_start_hour |-> 0]

NextId_reusing_last(table) == IF DOMAIN table = {} THEN 1 ELSE MaxOf(DOMAIN table)

\* the next INTEGER PRIMARY KEY of a table
NextId(table) == IF DOMAIN table = {} THEN 1 ELSE MaxOf(DOMAIN table) + 1

EmptyTable == [i \in {} |-> None]

Insert(table, id, row) == [i \in DOMAIN table \cup {id} |-> IF i = id THEN row ELSE table[i]]

Delete(table, id) == [i \in DOMAIN table \ {id} |-> table[i]]

\* init_database on an empty database: the default season
InitialSeasons ==
    Insert(EmptyTable, 1,
           SeasonRow(DEFAULT_SEASON_NAME, datetime_now(0, DEFAULT_TIMEZONE), "UTC"))

\* get_db_session: the body ended normally, the session commits
Committed(op, value) ==
    [op |-> op, status |-> "ok", error |-> "", cause |-> "", value |-> value,
     txn |-> "commit"]

\* get_db_session: the body raised `cause`; rollback, DatabaseError reaches the caller
RolledBack(op, cause) ==
    [op |-> op, status |-> "error", error |-> "DatabaseError", cause |-> cause,
     value |-> None, txn |-> "rollback"]

\* an exception raised before any session was opened
Rejected(op, error) ==
    [op |-> op, status |-> "error", error |-> error, cause |-> error,
     value |-> None, txn |-> "none"]

NoCall == [op |-> "", status |-> "ok", error |-> "", cause |-> "", value |-> None,
           txn |-> "none"]

----
(* services.py: ValidationService *)

\* validate_and_convert_difficulty: [ok, value]
validate_and_convert_difficulty(difficulty) ==
    IF difficulty = None THEN [ok |-> TRUE, value |-> None]
    ELSE IF Val(difficulty) \notin MIN_DIFFICULTY_LEVEL..MAX_DIFFICULTY_LEVEL
    THEN [ok |-> FALSE, value |-> None]
    ELSE [ok |-> TRUE, value |-> Some(DIFFICULTY_MAP_INT_TO_STR[Val(difficulty)])]

\* validate_timezone raises InvalidTimezoneError exactly when gettz gives None
validate_timezone_ok(timezone_string) == gettz(timezone_string) # None

\* datetime.strptime(s, "%Y-%m-%d %H:%M:%S"): the naive datetime, None on ValueError
StrptimeTable ==
    [s \in {"1970-01-05 00:15:00", "1970-01-05 00:30:00"} |->
        CASE s = "1970-01-05 00:15:00" -> 15 * SECONDS_PER_MINUTE
          [] s = "1970-01-05 00:30:00" -> 30 * SECONDS_PER_MINUTE]

strptime(s) == IF s \in DOMAIN StrptimeTable THEN Some(Naive(StrptimeTable[s])) ELSE None

----
(* services.py: SeasonService *)

ActiveIds(ss) == {i \in DOMAIN ss : ss[i].is_active}

get_active_season_or_first(ss) ==
    IF ActiveIds(ss) # {} THEN Some(MinOf(ActiveIds(ss)))
    ELSE IF DOMAIN ss # {} THEN Some(MinOf(DOMAIN ss))
    ELSE None

\* get_active_season: the first active row, None for NoActiveSeasonError
get_active_season(ss) == IF ActiveIds(ss) = {} THEN None ELSE Some(MinOf(ActiveIds(ss)))

\* what every service call leaves alone
ServiceFrame ==
    UNCHANGED <<now, backup_file, lp_task, lp_tz, lp_result, status, timeseries, session>>

\* create_season(name): archive the active season, add the new active one
create_season(name) ==
    /\ Cardinality(DOMAIN seasons) < MaxSeasons
    /\ LET active == get_active_season(seasons)
           deactivated ==
               IF active = None THEN seasons
               ELSE [seasons EXCEPT ![Val(active)].is_active = FALSE,
                                    ![Val(active)].end_date = Some(datetime_now(now, 0))]
           new_season == SeasonRow(name, datetime_now(now, SystemTz), SystemTzString)
           id == NextId(seasons)
       IN  IF \E i \in DOMAIN seasons : seasons[i].name = name
           THEN \* flush: UNIQUE constraint on seasons.name
                /\ outcome' = RolledBack("create_season", "IntegrityError")
                /\ UNCHANGED seasons
           ELSE /\ seasons' = Insert(deactivated, id, new_season)
                /\ outcome' = Committed("create_season", Some(id))
    /\ recalc_streak' = 0
    /\ UNCHANGED tasks
    /\ ServiceFrame

deactivate_current_season_skipped(ss) == ss

\* lines 261-266: deactivate the current season, if there is one
deactivate_current_season(ss) ==
    IF get_active_season(ss) = None THEN ss
    ELSE [ss EXCEPT ![Val(get_active_season(ss))].is_active = FALSE]

\* switch_season(season_id)
switch_season(season_id) ==
    /\ LET deactivated == deactivate_current_season(seasons)
       IN  IF season_id \notin DOMAIN seasons
           THEN /\ outcome' = RolledBack("switch_season", "SeasonNotFoundError")
                /\ UNCHANGED seasons
           ELSE /\ seasons' = [deactivated EXCEPT ![season_id].is_active = TRUE]
                /\ outcome' = Committed("switch_season", Some(season_id))
    /\ recalc_streak' = 0
    /\ UNCHANGED tasks
    /\ ServiceFrame

\* set_decay(decay_value)
set_decay(decay_value) ==
    /\ LET active == get_active_season(seasons)
       IN  IF active = None
           THEN /\ outcome' = RolledBack("set_decay", "NoActiveSeasonError")
                /\ UNCHANGED seasons
           ELSE /\ seasons' = [seasons EXCEPT ![Val(active)].daily_decay = decay_value]
                /\ outcome' = Committed("set_decay", active)
    /\ recalc_streak' = 0
    /\ UNCHANGED tasks
    /\ ServiceFrame

\* set_timezone(timezone_string)
set_timezone(timezone_string) ==
    /\ LET active == get_active_season(seasons)
       IN  IF ~validate_timezone_ok(timezone_string)
           THEN /\ outcome' = Rejected("set_timezone", "InvalidTimezoneError")
                /\ UNCHANGED seasons
           ELSE IF active = None
           THEN /\ outcome' = RolledBack("set_timezone", "NoActiveSeasonError")
                /\ UNCHANGED seasons
           ELSE /\ seasons' = [seasons EXCEPT
                                   ![Val(active)].timezone_string = timezone_string]
                /\ outcome' = Committed("set_timezone", active)
    /\ recalc_streak' = 0
    /\ UNCHANGED tasks
    /\ ServiceFrame

\* set_day_start_hour(hour)
set_day_start_hour(hour) ==
    /\ LET active == get_active_season(seasons)
       IN  IF ~(0 <= hour /\ hour <= 23)
           THEN /\ outcome' = Rejected("set_day_start_hour", "ValueError")
                /\ UNCHANGED seasons
           ELSE IF active = None
           THEN /\ outcome' = RolledBack("set_day_start_hour", "NoActiveSeasonError")
                /\ UNCHANGED seasons
           ELSE /\ seasons' = [seasons EXCEPT ![Val(active)].day_start_hour = hour]
                /\ outcome' = Committed("set_day_start_hour", active)
    /\ recalc_streak' = 0
    /\ UNCHANGED tasks
    /\ ServiceFrame

\* get_current_season()
get_current_season ==
    /\ LET active == get_active_season(seasons)
       IN  IF active = None
           THEN outcome' = RolledBack("get_current_season", "NoActiveSeasonError")
           ELSE outcome' = Committed("get_current_season", active)
    /\ recalc_streak' = 0
    /\ UNCHANGED <<seasons, tasks>>
    /\ ServiceFrame

----
(* services.py: TaskService *)

\* the query every task operation but delete_task runs:
\* the active season, then the task of that id in that season.
\* [error, season, tz]: error is "" when the task was found
FindTask(task_id) ==
    LET active == get_active_season(seasons)
    IN  IF active = None
        THEN [error |-> "NoActiveSeasonError", season |-> 0, tz |-> None]
        ELSE IF ~(task_id \in DOMAIN tasks /\ tasks[task_id].season_id = Val(active))
        THEN [error |-> "TaskNotFoundError", season |-> Val(active), tz |-> None]
        ELSE [error |-> "", season |-> Val(active),
              tz |-> gettz(seasons[Val(active)].timezone_string)]

\* create_task(difficulty, duration, completed, finish_time_str)
create_task(difficulty, duration, completed, finish_time_str) ==
    /\ Cardinality(DOMAIN tasks) < MaxTasks
    /\ LET difficulty_str == validate_and_convert_difficulty(difficulty)
           active == get_active_season(seasons)
           season_tz == gettz(seasons[Val(active)].timezone_string)
           now_dt == datetime_now(now, Val(season_tz))
           parsed == strptime(Val(finish_time_str))
           task_finish_time ==
               IF ~completed THEN None
               ELSE IF finish_time_str # None /\ Val(finish_time_str) # ""
               THEN IF parsed # None
                    THEN Some(replace_tzinfo(Val(parsed), Val(season_tz)))
                    ELSE Some(now_dt)
               ELSE Some(now_dt)
           new_task ==
               [difficulty |-> difficulty_str.value, start_time |-> None,
                finish_time |-> task_finish_time, time_taken_minutes |-> duration,
                lp_gain |-> None, completed |-> completed, season_id |-> Val(active)]
           id == NextId(tasks)
       IN  IF ~difficulty_str.ok
           THEN /\ outcome' = Rejected("create_task", "InvalidDifficultyError")
                /\ UNCHANGED tasks
           ELSE IF active = None
           THEN /\ outcome' = RolledBack("create_task", "NoActiveSeasonError")
                /\ UNCHANGED tasks
           ELSE IF season_tz = None
           THEN /\ outcome' = RolledBack("create_task", "InvalidTimezoneError")
                /\ UNCHANGED tasks
           ELSE /\ tasks' = Insert(tasks, id,
                       IF completed
                       THEN [new_task EXCEPT
                                !.lp_gain = calculate_lp_gain(new_task, Val(season_tz))]
                       ELSE new_task)
                /\ outcome' = Committed("create_task", Some(id))
    /\ recalc_streak' = 0
    /\ UNCHANGED seasons
    /\ ServiceFrame

\* get_task(task_id)
get_task(task_id) ==
    /\ LET found == FindTask(task_id)
       IN  IF found.error # ""
           THEN outcome' = RolledBack("get_task", found.error)
           ELSE outcome' = Committed("get_task", Some(task_id))
    /\ recalc_streak' = 0
    /\ UNCHANGED <<seasons, tasks>>
    /\ ServiceFrame

\* start_task(task_id)
start_task(task_id) ==
    /\ LET found == FindTask(task_id)
       IN  IF found.error # ""
           THEN /\ outcome' = RolledBack("start_task", found.error)
                /\ UNCHANGED tasks
           ELSE IF found.tz = None
           THEN /\ outcome' = RolledBack("start_task", "InvalidTimezoneError")
                /\ UNCHANGED tasks
           ELSE /\ tasks' = [tasks EXCEPT
                       ![task_id].start_time = Some(datetime_now(now, Val(found.tz)))]
                /\ outcome' = Committed("start_task", Some(task_id))
    /\ recalc_streak' = 0
    /\ UNCHANGED seasons
    /\ ServiceFrame

\* stop_task(task_id)
stop_task(task_id) ==
    /\ LET found == FindTask(task_id)
       IN  IF found.error # ""
           THEN /\ outcome' = RolledBack("stop_task", found.error)
                /\ UNCHANGED tasks
           ELSE IF found.tz = None
           THEN /\ outcome' = RolledBack("stop_task", "InvalidTimezoneError")
                /\ UNCHANGED tasks
           ELSE /\ tasks' = [tasks EXCEPT
                       ![task_id].finish_time = Some(datetime_now(now, Val(found.tz)))]
                /\ outcome' = Committed("stop_task", Some(task_id))
    /\ recalc_streak' = 0
    /\ UNCHANGED seasons
    /\ ServiceFrame

finish_time_stamped(task, season_tz) == Some(datetime_now(now, season_tz))

finish_time_untouched(task, season_tz) == task.finish_time

\* lines 650-651: `if not task.finish_time: task.finish_time = datetime.now(season_tz)`
finish_time_at_completion(task, season_tz) ==
    IF task.finish_time = None THEN Some(datetime_now(now, season_tz))
    ELSE task.finish_time

\* complete_task(task_id)
complete_task(task_id) ==
    /\ LET found == FindTask(task_id)
           task == tasks[task_id]
           finished ==
               [task EXCEPT !.completed = TRUE,
                            !.finish_time =
                                finish_time_at_completion(task, Val(found.tz))]
       IN  IF found.error # ""
           THEN /\ outcome' = RolledBack("complete_task", found.error)
                /\ UNCHANGED tasks
           ELSE IF found.tz = None
           THEN /\ outcome' = RolledBack("complete_task", "InvalidTimezoneError")
                /\ UNCHANGED tasks
           ELSE /\ tasks' = [tasks EXCEPT ![task_id] =
                       [finished EXCEPT
                           !.lp_gain = calculate_lp_gain(finished, Val(found.tz))]]
                /\ outcome' = Committed("complete_task", Some(task_id))
    /\ recalc_streak' = 0
    /\ UNCHANGED seasons
    /\ ServiceFrame

\* update_task(task_id, difficulty, duration, finish_time_str)
update_task(task_id, difficulty, duration, finish_time_str) ==
    /\ LET difficulty_str == validate_and_convert_difficulty(difficulty)
           found == FindTask(task_id)
           task == tasks[task_id]
           parsed == strptime(Val(finish_time_str))
           \* strptime comes before validate_timezone: a ValueError skips both
           sets_finish == finish_time_str # None /\ parsed # None
           edited ==
               [task EXCEPT
                   !.difficulty = IF difficulty_str.value # None
                                  THEN difficulty_str.value ELSE @,
                   !.time_taken_minutes = IF duration # None THEN duration ELSE @,
                   !.finish_time = IF sets_finish
                                   THEN Some(replace_tzinfo(Val(parsed), Val(found.tz)))
                                   ELSE @]
       IN  IF ~difficulty_str.ok
           THEN /\ outcome' = Rejected("update_task", "InvalidDifficultyError")
                /\ UNCHANGED tasks
           ELSE IF found.error # ""
           THEN /\ outcome' = RolledBack("update_task", found.error)
                /\ UNCHANGED tasks
           ELSE IF found.tz = None /\ (sets_finish \/ task.completed)
           THEN /\ outcome' = RolledBack("update_task", "InvalidTimezoneError")
                /\ UNCHANGED tasks
           ELSE /\ tasks' = [tasks EXCEPT ![task_id] =
                       IF task.completed
                       THEN [edited EXCEPT
                                !.lp_gain = calculate_lp_gain(edited, Val(found.tz))]
                       ELSE edited]
                /\ outcome' = Committed("update_task", Some(task_id))
    /\ recalc_streak' = 0
    /\ UNCHANGED seasons
    /\ ServiceFrame

\* delete_task(task_id): the query has no season filter
delete_task(task_id) ==
    /\ IF task_id \notin DOMAIN tasks
       THEN /\ outcome' = RolledBack("delete_task", "TaskNotFoundError")
            /\ UNCHANGED tasks
       ELSE /\ tasks' = Delete(tasks, task_id)
            /\ outcome' = Committed("delete_task", Some(task_id))
    /\ recalc_streak' = 0
    /\ UNCHANGED seasons
    /\ ServiceFrame

\* the loop body of recalculate_all_lp: the task with its legacy difficulty normalised
normalized(task) ==
    IF task.difficulty # None /\ Val(task.difficulty) \in DOMAIN DIFFICULTY_NORMALIZATION_MAP
    THEN [task EXCEPT !.difficulty = Some(DIFFICULTY_NORMALIZATION_MAP[Val(task.difficulty)])]
    ELSE task

changed_tasks_every_task(completed_tasks, season_timezone) == completed_tasks

\* lines 757-760: the tasks whose stored lp_gain differs from new_lp
changed_tasks(completed_tasks, season_timezone) ==
    {i \in completed_tasks :
         tasks[i].lp_gain # calculate_lp_gain(normalized(tasks[i]), season_timezone)}

\* recalculate_all_lp(): returns the number of tasks whose lp_gain it replaced
recalculate_all_lp ==
    /\ LET active == get_active_season(seasons)
           completed_tasks ==
               {i \in DOMAIN tasks :
                    tasks[i].season_id = Val(active) /\ tasks[i].completed}
           season_tz == gettz(seasons[Val(active)].timezone_string)
           new_lp(i) == calculate_lp_gain(normalized(tasks[i]), Val(season_tz))
           changed == changed_tasks(completed_tasks, Val(season_tz))
       IN  IF active = None
           THEN /\ outcome' = RolledBack("recalculate_all_lp", "NoActiveSeasonError")
                /\ recalc_streak' = 0
                /\ UNCHANGED tasks
           ELSE IF completed_tasks = {}
           THEN /\ outcome' = Committed("recalculate_all_lp", Some(0))
                /\ recalc_streak' = IF recalc_streak < 2 THEN recalc_streak + 1 ELSE 2
                /\ UNCHANGED tasks
           ELSE IF season_tz = None
           THEN /\ outcome' = RolledBack("recalculate_all_lp", "InvalidTimezoneError")
                /\ recalc_streak' = 0
                /\ UNCHANGED tasks
           ELSE /\ tasks' = [i \in DOMAIN tasks |->
                       IF i \in completed_tasks
                       THEN [normalized(tasks[i]) EXCEPT !.lp_gain = new_lp(i)]
                       ELSE tasks[i]]
                /\ outcome' = Committed("recalculate_all_lp", Some(Cardinality(changed)))
                /\ recalc_streak' = IF recalc_streak < 2 THEN recalc_streak + 1 ELSE 2
    /\ UNCHANGED seasons
    /\ ServiceFrame

----
(* services.py: StatusService.get_lp_status *)

RECURSIVE SumLP(_, _)
\* df['lp_gain'].sum() over the rows ids: a missing lp_gain counts nothing
SumLP(rows, ids) ==
    IF ids = {} THEN 0
    ELSE LET i == CHOOSE x \in ids : TRUE
         IN  (IF rows[i].lp_gain = None THEN 0 ELSE Val(rows[i].lp_gain))
             + SumLP(rows, ids \ {i})

get_completed_tasks_of_any_season(season_id) ==
    {i \in DOMAIN tasks : tasks[i].completed}

\* get_completed_tasks: ids of the completed tasks of the season
get_completed_tasks(season_id) ==
    {i \in DOMAIN tasks : tasks[i].season_id = season_id /\ tasks[i].completed}

\* time(day_start_hour), seconds after midnight
time_of_hour(day_start_hour) == day_start_hour * SECONDS_PER_HOUR

\* datetime.combine(date, time(hour), tzinfo=tz)
combine(date, hour, tz) == Aware(date * SECONDS_PER_DAY + time_of_hour(hour), tz)

\* lines 810-813: the LP day of "now"
today_for_lp_gain_comparison(now_in_season_tz, day_start_hour) ==
    IF time_of(now_in_season_tz) < time_of_hour(day_start_hour)
    THEN date_of(now_in_season_tz) - 1
    ELSE date_of(now_in_season_tz)

task_lp_date_by_date(finish_time, season_timezone, day_start_hour) ==
    date_of(astimezone(localized(finish_time, season_timezone), season_timezone))

\* lines 829-833: the LP day of a task's finish_time
task_lp_date(finish_time, season_timezone, day_start_hour) ==
    LET task_finish_time_in_season_tz ==
            astimezone(localized(finish_time, season_timezone), season_timezone)
    IN  IF time_of(task_finish_time_in_season_tz) < time_of_hour(day_start_hour)
        THEN date_of(task_finish_time_in_season_tz) - 1
        ELSE date_of(task_finish_time_in_season_tz)

is_task_for_today_lp_any_day(row, today, season_timezone, day_start_hour) ==
    row.finish_time # None

\* is_task_for_today_lp(row)
is_task_for_today_lp(row, today, season_timezone, day_start_hour) ==
    /\ row.finish_time # None
    /\ task_lp_date(Val(row.finish_time), season_timezone, day_start_hour) = today

first_decay_point_not_advanced(season, season_timezone) ==
    combine(date_of(astimezone(season.start_date, season_timezone)),
            season.day_start_hour, season_timezone)

\* lines 816-819: first_decay_point_for_season
first_decay_point_for_season(season, season_timezone) ==
    LET season_start_dt_in_season_tz == astimezone(season.start_date, season_timezone)
        first == combine(date_of(season_start_dt_in_season_tz),
                         season.day_start_hour, season_timezone)
    IN  IF utc_seconds(first) < utc_seconds(season_start_dt_in_season_tz)
        THEN Aware(first.wall + SECONDS_PER_DAY, season_timezone)
        ELSE first

days_passed_by_date(now_in_season_tz, first_decay_point) ==
    Max(0, date_of(now_in_season_tz) - date_of(first_decay_point))

\* lines 821-822: both datetimes carry the season zone, so the difference is
\* the difference of their wall-clock readings
days_passed_since(now_in_season_tz, first_decay_point) ==
    Max(0, (now_in_season_tz.wall - first_decay_point.wall) \div SECONDS_PER_DAY)

NoStatus == [called |-> FALSE, calls |-> 0]

\* lines 841, 873: the weekday abbreviations, Monday first
DAYS == <<"Mon", "Tue", "Wed", "Thu", "Fri", "Sat", "Sun">>

\* date.weekday(): Monday is 0 (day 0 of the model, 1970-01-05, is a Monday)
weekday(date) == date % 7

\* date.strftime('%a')
strftime_a(date) == DAYS[weekday(date) + 1]

\* lines 847-850: the first and the last date of the selected week
start_of_week(today_date, week) == today_date - weekday(today_date) + 7 * week

end_of_week(today_date, week) == start_of_week(today_date, week) + 6

get_lp_day_of_any_week(row, first, last, season_timezone, day_start_hour) ==
    IF row.finish_time = None THEN None
    ELSE Some(strftime_a(task_lp_date(Val(row.finish_time), season_timezone,
                                      day_start_hour)))

\* lines 853-865: get_lp_day(row), None when the row falls outside the week
get_lp_day(row, first, last, season_timezone, day_start_hour) ==
    IF row.finish_time = None THEN None
    ELSE LET task_finish_time_in_season_tz ==
                 astimezone(localized(Val(row.finish_time), season_timezone),
                            season_timezone)
             lp_date ==
                 IF time_of(task_finish_time_in_season_tz) < time_of_hour(day_start_hour)
                 THEN date_of(task_finish_time_in_season_tz) - 1
                 ELSE date_of(task_finish_time_in_season_tz)
         IN  IF first <= lp_date /\ lp_date <= last
             THEN Some(strftime_a(lp_date)) ELSE None

\* lines 867-868: groupby('lp_day_of_week')['lp_gain'].sum(); rows without a
\* day form no group
weekly_lp_of(rows, first, last, season_timezone, day_start_hour) ==
    LET day_of(i) == get_lp_day(tasks[i], first, last, season_timezone, day_start_hour)
    IN  [day \in {Val(day_of(i)) : i \in {r \in rows : day_of(r) # None}} |->
            SumLP(tasks, {i \in rows : day_of(i) = Some(day)})]

\* lines 841, 872-874: {day: weekly_lp.get(day, 0.0) for day in days}
lp_by_day_of(rows, first, last, season_timezone, day_start_hour) ==
    LET weekly_lp == IF rows = {} THEN [day \in {} |-> 0]
                     ELSE weekly_lp_of(rows, first, last, season_timezone,
                                       day_start_hour)
    IN  [day \in {DAYS[d] : d \in DOMAIN DAYS} |->
            IF day \in DOMAIN weekly_lp THEN weekly_lp[day] ELSE 0]

RECURSIVE SumSeq(_)
\* sum(lp_by_day.values())
SumSeq(q) == IF q = <<>> THEN 0 ELSE Head(q) + SumSeq(Tail(q))

\* lines 885-891: the decay points current, current + 1 day, ... before the end
decay_count_in_week(current, week_window_end) ==
    IF utc_seconds(current) >= utc_seconds(week_window_end) THEN 0
    ELSE (utc_seconds(week_window_end) - utc_seconds(current) - 1) \div SECONDS_PER_DAY + 1

time_until_next_decay_of_today(now_in_season_tz, day_start_hour) ==
    (date_of(now_in_season_tz) * SECONDS_PER_DAY + time_of_hour(day_start_hour)
     - now_in_season_tz.wall) % SECONDS_PER_DAY

\* lines 894-899: time_until_next_decay, in seconds
time_until_next_decay_of(now_in_season_tz, day_start_hour) ==
    LET todays_decay_point ==
            Aware(date_of(now_in_season_tz) * SECONDS_PER_DAY + time_of_hour(day_start_hour),
                  now_in_season_tz.off)
        next_decay_point ==
            IF now_in_season_tz.wall >= todays_decay_point.wall
            THEN todays_decay_point.wall + SECONDS_PER_DAY
            ELSE todays_decay_point.wall
    IN  next_decay_point - now_in_season_tz.wall

breakeven_of_unclamped(daily_decay, net_total_lp) == daily_decay - net_total_lp

\* line 903: max(0, daily_decay - net_total_lp)
breakeven_of(daily_decay, net_total_lp) == Max(0, daily_decay - net_total_lp)

ResultKeys_with_days_passed ==
    {"total_lp_gain", "total_decay", "net_total_lp", "daily_lp_gain", "days_passed",
     "time_until_next_decay", "breakeven_lp_gain_required", "lp_by_day_of_week",
     "season_name", "week", "weekly_lp_total", "weekly_decay", "weekly_delta"}

\* lines 905-918: the keys of the returned dict
ResultKeys ==
    {"total_lp_gain", "total_decay", "net_total_lp", "daily_lp_gain",
     "time_until_next_decay", "breakeven_lp_gain_required", "lp_by_day",
     "season_name", "week", "weekly_lp_total", "weekly_decay", "weekly_delta"}

\* what get_lp_status(week) computes for the active season when the clock shows
\* `now`; LP amounts are in quarter points
LpStatus(season_id, calls, week) ==
    LET active_season == seasons[season_id]
        season_timezone == Val(gettz(active_season.timezone_string))
        day_start_hour == active_season.day_start_hour
        daily_decay == active_season.daily_decay * LP_SCALE
        rows == get_completed_tasks(season_id)
        total_lp_gain == SumLP(tasks, rows)
        now_in_season_tz == datetime_now(now, season_timezone)
        today == today_for_lp_gain_comparison(now_in_season_tz, day_start_hour)
        first_decay_point == first_decay_point_for_season(active_season, season_timezone)
        days_passed == days_passed_since(now_in_season_tz, first_decay_point)
        total_decay == days_passed * daily_decay
        today_ids == {i \in rows : is_task_for_today_lp(tasks[i], today,
                                        season_timezone, day_start_hour)}
        first == start_of_week(date_of(now_in_season_tz), week)
        last == end_of_week(date_of(now_in_season_tz), week)
        lp_by_day == lp_by_day_of(rows, first, last, season_timezone, day_start_hour)
        week_window_start == combine(first, day_start_hour, season_timezone)
        week_window_end == IF week = 0 THEN now_in_season_tz
                           ELSE combine(last + 1, day_start_hour, season_timezone)
        current_decay_point_for_week ==
            IF utc_seconds(first_decay_point) >= utc_seconds(week_window_start)
            THEN first_decay_point ELSE week_window_start
        weekly_lp_total == IF rows = {} THEN 0
                           ELSE SumSeq([d \in DOMAIN DAYS |-> lp_by_day[DAYS[d]]])
        weekly_decay ==
            IF rows = {} THEN 0
            ELSE decay_count_in_week(current_decay_point_for_week, week_window_end)
                 * daily_decay
        net_total_lp == total_lp_gain - total_decay
    IN  [called |-> TRUE, calls |-> calls, error |-> "", cause |-> "",
         keys |-> ResultKeys,
         now_in_season_tz |-> now_in_season_tz,
         today_for_lp_gain_comparison |-> today,
         first_decay_point_for_season |-> first_decay_point,
         days_passed |-> days_passed,
         today_ids |-> today_ids,
         total_lp_gain |-> total_lp_gain,
         total_decay |-> total_decay,
         net_total_lp |-> net_total_lp,
         daily_lp_gain |-> SumLP(tasks, today_ids),
         time_until_next_decay |-> time_until_next_decay_of(now_in_season_tz, day_start_hour),
         breakeven_lp_gain_required |-> breakeven_of(daily_decay, net_total_lp),
         lp_by_day |-> lp_by_day,
         season_name |-> active_season.name,
         week |-> week,
         weekly_lp_total |-> weekly_lp_total,
         weekly_decay |-> weekly_decay,
         weekly_delta |-> weekly_lp_total - weekly_decay]

\* get_lp_status(week): a missing active season (raised inside get_current_season's
\* session), or a zone name gettz cannot resolve (a naive datetime is then
\* compared with an aware one), reaches the caller as DatabaseError
get_lp_status(week) ==
    /\ status.calls < MaxCalls
    /\ LET active == get_active_season(seasons)
           failed(cause) == [called |-> TRUE, calls |-> status.calls + 1,
                             error |-> "DatabaseError", cause |-> cause]
       IN  IF active = None THEN status' = failed("NoActiveSeasonError")
           ELSE IF gettz(seasons[Val(active)].timezone_string) = None
           THEN status' = failed("TypeError")
           ELSE status' = LpStatus(Val(active), status.calls + 1, week)
    /\ UNCHANGED <<seasons, tasks, now, outcome, recalc_streak, backup_file,
                   lp_task, lp_tz, lp_result, timeseries, session>>

----
(* services.py: AnalysisService.get_lp_timeseries_data *)

\* lines 1083-1096: the completed tasks that become 'gain' events
gain_events(season_id) ==
    {i \in get_completed_tasks(season_id) :
        tasks[i].finish_time # None /\ tasks[i].lp_gain # None}

\* lines 1107-1114: one 'decay' event per pass of the loop
\* `while current_decay_point <= now_in_season_tz`
RECURSIVE decay_events(_, _)
decay_events(current_decay_point, now_in_season_tz) ==
    IF current_decay_point.wall <= now_in_season_tz.wall
    THEN 1 + decay_events([current_decay_point EXCEPT !.wall = @ + SECONDS_PER_DAY],
                          now_in_season_tz)
    ELSE 0

\* what get_lp_timeseries_data computes for the active season when the clock
\* shows `now`: the events and the last value of the cumulative_lp column;
\* `empty` is the empty DataFrame returned for fewer than two events
LpTimeseries(season_id) ==
    LET active_season == seasons[season_id]
        season_timezone == Val(gettz(active_season.timezone_string))
        daily_decay == active_season.daily_decay * LP_SCALE
        gains == gain_events(season_id)
        now_in_season_tz == datetime_now(now, season_timezone)
        first_decay_point == first_decay_point_for_season(active_season, season_timezone)
        decays == decay_events(first_decay_point, now_in_season_tz)
        events == 1 + Cardinality(gains) + decays
    IN  [called |-> TRUE, error |-> "", empty |-> events < 2,
         gain_events |-> gains, decay_events |-> decays,
         cumulative_lp |-> SumLP(tasks, gains) - decays * daily_decay]

\* get_lp_timeseries_data(): get_current_season raises DatabaseError without an
\* active season; with a zone name gettz cannot resolve, a naive datetime is
\* compared with an aware one (TypeError, outside any session)
get_lp_timeseries_data ==
    /\ ~timeseries.called
    /\ LET active == get_active_season(seasons)
       IN  IF active = None
           THEN timeseries' = [called |-> TRUE, error |-> "DatabaseError"]
           ELSE IF gettz(seasons[Val(active)].timezone_string) = None
           THEN timeseries' = [called |-> TRUE, error |-> "TypeError"]
           ELSE timeseries' = LpTimeseries(Val(active))
    /\ UNCHANGED <<seasons, tasks, now, outcome, recalc_streak, backup_file,
                   lp_task, lp_tz, lp_result, status, session>>

----
(* services.py: BackupService *)

isoformat_without_offset(dt) == [iso |-> TRUE, wall |-> dt.wall, off |-> None]

\* datetime.isoformat(): the text of the wall-clock reading and of the offset, if any
isoformat(dt) ==
    [iso |-> TRUE, wall |-> dt.wall, off |-> IF dt.aware THEN Some(dt.off) ELSE None]

\* a string that is no ISO-8601 timestamp
NotIsoText == [iso |-> FALSE, wall |-> 0, off |-> None]

\* datetime.fromisoformat(text) of a well-formed text
fromisoformat(text) ==
    IF text.off = None THEN Naive(text.wall) ELSE Aware(text.wall, Val(text.off))

OptIso(odt) == IF odt = None THEN None ELSE Some(isoformat(Val(odt)))

OptFromIso(otext) == IF otext = None THEN None ELSE Some(fromisoformat(Val(otext)))

\* json.dump of one season with its tasks (default_serializer on every datetime)
ExportSeason(id) ==
    [id |-> id, name |-> seasons[id].name,
     start_date |-> isoformat(seasons[id].start_date),
     end_date |-> OptIso(seasons[id].end_date),
     is_active |-> seasons[id].is_active, daily_decay |-> seasons[id].daily_decay,
     timezone_string |-> seasons[id].timezone_string,
     day_start_hour |-> seasons[id].day_start_hour,
     tasks |-> {[id |-> t, difficulty |-> tasks[t].difficulty,
                 start_time |-> OptIso(tasks[t].start_time),
                 finish_time |-> OptIso(tasks[t].finish_time),
                 time_taken_minutes |-> tasks[t].time_taken_minutes,
                 lp_gain |-> tasks[t].lp_gain, completed |-> tasks[t].completed,
                 season_id |-> id] : t \in {u \in DOMAIN tasks : tasks[u].season_id = id}}]

\* the files an import can be pointed at, besides the exported backup:
\* no file, a file that is no JSON, and two hand-edited backups
LegacyBackup ==
    {[id |-> 1, name |-> "Legacy", start_date |-> isoformat(Aware(0, 0)),
      end_date |-> None, is_active |-> TRUE, daily_decay |-> DEFAULT_DAILY_DECAY,
      timezone_string |-> "UTC", day_start_hour |-> 0,
      tasks |-> {[id |-> 1, difficulty |-> Some("Medium"), start_time |-> None,
                  finish_time |-> Some(isoformat(Aware(0, 0))),
                  time_taken_minutes |-> Some(MINUTES_PER_HOUR), lp_gain |-> Some(0),
                  completed |-> TRUE, season_id |-> 1]}]}

BrokenBackup ==
    {[id |-> 1, name |-> "Broken", start_date |-> NotIsoText,
      end_date |-> None, is_active |-> TRUE, daily_decay |-> DEFAULT_DAILY_DECAY,
      timezone_string |-> "UTC", day_start_hour |-> 0, tasks |-> {}]}

\* a backup taken of a database whose only season had been archived
ArchivedBackup ==
    {[id |-> 1, name |-> "Archived", start_date |-> isoformat(Naive(0)),
      end_date |-> Some(isoformat(Naive(0))), is_active |-> FALSE,
      daily_decay |-> DEFAULT_DAILY_DECAY, timezone_string |-> "UTC",
      day_start_hour |-> 0,
      tasks |-> {[id |-> 1, difficulty |-> Some("Med"), start_time |-> None,
                  finish_time |-> None, time_taken_minutes |-> Some(MINUTES_PER_HOUR),
                  lp_gain |-> None, completed |-> FALSE, season_id |-> 1]}]}

ReadFile(filename) ==
    CASE filename = "backup.json" ->
             IF backup_file = None THEN [exists |-> FALSE, json |-> FALSE, doc |-> {}]
             ELSE [exists |-> TRUE, json |-> TRUE, doc |-> Val(backup_file)]
      [] filename = "legacy.json" -> [exists |-> TRUE, json |-> TRUE, doc |-> LegacyBackup]
      [] filename = "broken.json" -> [exists |-> TRUE, json |-> TRUE, doc |-> BrokenBackup]
      [] filename = "archived.json" ->
             [exists |-> TRUE, json |-> TRUE, doc |-> ArchivedBackup]
      [] filename = "notes.txt" -> [exists |-> TRUE, json |-> FALSE, doc |-> {}]
      [] OTHER -> [exists |-> FALSE, json |-> FALSE, doc |-> {}]

DocTasks(doc) == UNION {sd.tasks : sd \in doc}

\* the import loop raises: a timestamp that fromisoformat rejects (ValueError),
\* or a primary key or season name that occurs twice (IntegrityError)
ImportRaises(doc) ==
    \/ \E sd \in doc :
          \/ ~sd.start_date.iso
          \/ sd.end_date # None /\ ~Val(sd.end_date).iso
    \/ \E td \in DocTasks(doc) :
          \/ td.start_time # None /\ ~Val(td.start_time).iso
          \/ td.finish_time # None /\ ~Val(td.finish_time).iso
    \/ \E a, b \in doc : a # b /\ (a.id = b.id \/ a.name = b.name)
    \/ \E a, b \in DocTasks(doc) : a # b /\ a.id = b.id

ImportedSeasons(doc) ==
    [i \in {sd.id : sd \in doc} |->
        LET sd == CHOOSE x \in doc : x.id = i
        IN  [name |-> sd.name, start_date |-> fromisoformat(sd.start_date),
             end_date |-> OptFromIso(sd.end_date), is_active |-> sd.is_active,
             daily_decay |-> sd.daily_decay, timezone_string |-> sd.timezone_string,
             day_start_hour |-> sd.day_start_hour]]

ImportedTasks(doc) ==
    [i \in {td.id : td \in DocTasks(doc)} |->
        LET td == CHOOSE x \in DocTasks(doc) : x.id = i
        IN  [difficulty |-> td.difficulty, start_time |-> OptFromIso(td.start_time),
             finish_time |-> OptFromIso(td.finish_time),
             time_taken_minutes |-> td.time_taken_minutes, lp_gain |-> td.lp_gain,
             completed |-> td.completed, season_id |-> td.season_id]]

\* export_data(filename) with filename = "backup.json"
export_data ==
    /\ backup_file' = Some({ExportSeason(id) : id \in DOMAIN seasons})
    /\ outcome' = Committed("export_data", None)
    /\ recalc_streak' = 0
    /\ UNCHANGED <<seasons, tasks, now, lp_task, lp_tz, lp_result, status,
                   timeseries, session>>

\* import_data(filename): read the file, reset_database(), then insert in one session
import_data(filename) ==
    /\ LET file == ReadFile(filename)
       IN  IF ~file.exists
           THEN /\ outcome' = Rejected("import_data", "BackupFileNotFoundError")
                /\ UNCHANGED <<seasons, tasks>>
           ELSE IF ~file.json
           THEN /\ outcome' = Rejected("import_data", "BackupImportError")
                /\ UNCHANGED <<seasons, tasks>>
           ELSE IF ImportRaises(file.doc)
           THEN \* reset_database() has dropped every table; the rollback restores nothing
                /\ outcome' = RolledBack("import_data", "ValueError")
                /\ seasons' = EmptyTable
                /\ tasks' = EmptyTable
           ELSE /\ outcome' = Committed("import_data", None)
                /\ seasons' = ImportedSeasons(file.doc)
                /\ tasks' = ImportedTasks(file.doc)
    /\ recalc_streak' = 0
    /\ ServiceFrame

----
(* The clock and the command line *)

\* the clock advances in steps of one rounding interval
ClockStep == ROUNDING_INTERVAL_MINUTES * SECONDS_PER_MINUTE

Tick ==
    /\ now < MaxNow * ClockStep
    /\ now' = now + ClockStep
    /\ UNCHANGED <<seasons, tasks, outcome, recalc_streak, backup_file,
                   lp_task, lp_tz, lp_result, status, timeseries, session>>

\* the arguments the commands are called with
DifficultyInputs == {None, Some(3), Some(6)}

DurationInputs == {None, Some(20)}

FinishStrInputs == {None, Some("1970-01-05 00:15:00"), Some("tomorrow")}

TaskIdInputs == 1..(MaxTasks + 1)

SeasonNameInputs == {DEFAULT_SEASON_NAME, "Spring", "Summer"}

SeasonIdInputs == 1..(MaxSeasons + 1)

DecayInputs == {0, 0 - 1}

TimezoneInputs == {"Asia/Kolkata", "Mars/Olympus", "UTC+3"}

HourInputs == {4, 24}

FileInputs == {"legacy.json", "broken.json", "notes.txt", "missing.json"}

IdleTask ==
    [difficulty |-> None, start_time |-> None, finish_time |-> None,
     time_taken_minutes |-> None, lp_gain |-> None, completed |-> FALSE, season_id |-> 1]

IdleLP ==
    /\ lp_task = IdleTask
    /\ lp_tz = 0
    /\ lp_result = [done |-> FALSE, value |-> None]

\* no status or time-series query made yet, no session open
NoSeries == [called |-> FALSE]

NoSession == [pc |-> "idle"]

IdleStatus ==
    /\ status = NoStatus
    /\ timeseries = NoSeries
    /\ session = NoSession

\* the state after `init` on a fresh database
InitialDatabase ==
    /\ seasons = InitialSeasons
    /\ tasks = EmptyTable
    /\ now = 0
    /\ outcome = NoCall
    /\ recalc_streak = 0
    /\ backup_file = None

Init ==
    /\ InitialDatabase
    /\ IdleLP
    /\ IdleStatus

NextSeason ==
    \/ \E name \in SeasonNameInputs : create_season(name)
    \/ \E season_id \in SeasonIdInputs : switch_season(season_id)
    \/ Tick

NextTask ==
    \/ \E difficulty \in DifficultyInputs, duration \in DurationInputs,
          completed \in BOOLEAN, finish_time_str \in FinishStrInputs :
          create_task(difficulty, duration, completed, finish_time_str)
    \/ \E task_id \in TaskIdInputs : start_task(task_id)
    \/ \E task_id \in TaskIdInputs : stop_task(task_id)
    \/ \E task_id \in TaskIdInputs : complete_task(task_id)
    \/ \E task_id \in TaskIdInputs, difficulty \in DifficultyInputs,
          duration \in DurationInputs, finish_time_str \in FinishStrInputs :
          update_task(task_id, difficulty, duration, finish_time_str)
    \/ recalculate_all_lp
    \/ Tick

Next ==
    \/ \E name \in SeasonNameInputs : create_season(name)
    \/ \E season_id \in SeasonIdInputs : switch_season(season_id)
    \/ \E difficulty \in DifficultyInputs, duration \in DurationInputs,
          completed \in BOOLEAN, finish_time_str \in FinishStrInputs :
          create_task(difficulty, duration, completed, finish_time_str)
    \/ \E task_id \in TaskIdInputs : get_task(task_id)
    \/ \E task_id \in TaskIdInputs : start_task(task_id)
    \/ \E task_id \in TaskIdInputs : stop_task(task_id)
    \/ \E task_id \in TaskIdInputs : complete_task(task_id)
    \/ \E task_id \in TaskIdInputs, difficulty \in DifficultyInputs,
          duration \in DurationInputs, finish_time_str \in FinishStrInputs :
          update_task(task_id, difficulty, duration, finish_time_str)
    \/ \E task_id \in TaskIdInputs : delete_task(task_id)
    \/ recalculate_all_lp
    \/ \E filename \in FileInputs : import_data(filename)
    \/ Tick

\* every service operation, from an initialised database
Spec == Init /\ [][Next]_vars

\* the season transitions alone
SpecSeason == Init /\ [][NextSeason]_vars

\* the task operations alone, in the default season
SpecTask == Init /\ [][NextTask]_vars

----
(* calculate_lp_gain as a function of its arguments *)

LPDifficulties ==
    {None, Some("Easy"), Some("Easy-Med"), Some("Med"), Some("Med-Hard"), Some("Hard"),
     Some("Medium")}

\* manual durations in minutes: negative, zero, either side of the rounding
\* midpoints 7.5 and 22.5, and one hour
LPMinutes == {None, Some(0 - 5), Some(0), Some(7), Some(8), Some(22), Some(23), Some(60)}

LPZones == {ZoneOffset[z] : z \in DOMAIN ZoneOffset}

\* start 00:30:00; finishes 7.5, 22.5, 37.5 and 60 minutes later, and one earlier
LPStartWall == 30 * SECONDS_PER_MINUTE

LPFinishWalls ==
    {0, LPStartWall + 450, LPStartWall + 1350, LPStartWall + 2250,
     LPStartWall + SECONDS_PER_HOUR}

LPStarts == {None, Some(Naive(LPStartWall)), Some(Aware(LPStartWall, 0))}

LPFinishes ==
    {None} \cup {Some(Naive(w)) : w \in LPFinishWalls}
           \cup {Some(Aware(w, 0)) : w \in LPFinishWalls}
           \cup {Some(Aware(w + ZoneOffset["Asia/Kolkata"], ZoneOffset["Asia/Kolkata"])) :
                    w \in LPFinishWalls}

InitLP ==
    /\ InitialDatabase
    /\ IdleStatus
    /\ lp_tz \in LPZones
    /\ lp_result = [done |-> FALSE, value |-> None]
    /\ \E d \in LPDifficulties, m \in LPMinutes, st \in LPStarts, ft \in LPFinishes :
          lp_task = [IdleTask EXCEPT !.difficulty = d, !.time_taken_minutes = m,
                                     !.start_time = st, !.finish_time = ft,
                                     !.completed = TRUE]

\* the call lp_gain = calculate_lp_gain(task, season_timezone)
lp_call ==
    /\ ~lp_result.done
    /\ lp_result' = [done |-> TRUE, value |-> calculate_lp_gain(lp_task, lp_tz)]
    /\ UNCHANGED <<seasons, tasks, now, outcome, recalc_streak, backup_file,
                   lp_task, lp_tz, status, timeseries, session>>

NextLP == lp_call

SpecLP == InitLP /\ [][NextLP]_vars

\* the duration the task measures, as the contract words it: the manual override,
\* else the distance between the two instants, else nothing
MeasuredSource ==
    IF lp_task.time_taken_minutes # None THEN "manual"
    ELSE IF lp_task.start_time # None /\ lp_task.finish_time # None THEN "clock"
    ELSE "none"

InstantOf(odt) ==
    IF Val(odt).aware THEN Val(odt).wall - Val(odt).off ELSE Val(odt).wall - lp_tz

MeasuredSeconds ==
    CASE MeasuredSource = "manual" -> Val(lp_task.time_taken_minutes) * 60
      [] MeasuredSource = "clock" ->
             InstantOf(lp_task.finish_time) - InstantOf(lp_task.start_time)
      [] OTHER -> 0

BasePoints ==
    CASE lp_task.difficulty = Some("Easy") -> 1
      [] lp_task.difficulty = Some("Easy-Med") -> 2
      [] lp_task.difficulty = Some("Med") -> 4
      [] lp_task.difficulty = Some("Med-Hard") -> 8
      [] lp_task.difficulty = Some("Hard") -> 16
      [] OTHER -> 0

ValidDifficulty == BasePoints > 0

\* C5: for a difficulty D of the five levels and a measured duration M > 0 the
\* gain is base_points[D] * R / 60, R the multiple of 15 minutes nearest to M
\* (base points 1/2/4/8/16); Hard with a manual 60 minutes gains 16.0
C5_GainFormula ==
    (lp_result.done /\ ValidDifficulty /\ MeasuredSeconds > 0) =>
        /\ \E k \in 0..(MeasuredSeconds \div 900 + 1) :
              /\ 2 * (k * 900 - MeasuredSeconds) <= 900
              /\ 2 * (MeasuredSeconds - k * 900) <= 900
              /\ lp_result.value = Some(BasePoints * k)
        /\ (lp_task.difficulty = Some("Hard") /\ lp_task.time_taken_minutes = Some(60))
              => lp_result.value = Some(16 * LP_SCALE)

C5_Witness ==
    /\ lp_result.done
    /\ lp_task.difficulty = Some("Hard")
    /\ lp_task.time_taken_minutes = Some(60)
    /\ lp_result.value = Some(64)

\* C6: the result is None exactly when no difficulty is set; with a difficulty
\* it is a number, and 0.0 when the duration is <= 0 or there is no source
C6_NoneOnlyWithoutDifficulty ==
    lp_result.done =>
        /\ (lp_result.value = None) <=> (lp_task.difficulty = None)
        /\ (lp_task.difficulty # None /\ (MeasuredSource = "none" \/ MeasuredSeconds <= 0))
              => lp_result.value = Some(0)

C6_Witness ==
    /\ lp_result.done
    /\ lp_task.difficulty = Some("Hard")
    /\ MeasuredSource = "clock"
    /\ MeasuredSeconds < 0
    /\ lp_result.value = Some(0)

\* C7: a manual duration alone decides the result, whatever start_time and
\* finish_time are; without it, and only with both timestamps, the duration
\* is finish - start as instants (a naive one read in the season zone)
C7_DurationSource ==
    lp_result.done =>
        /\ lp_task.time_taken_minutes # None =>
              /\ \A st \in LPStarts, ft \in LPFinishes :
                    lp_result.value =
                        calculate_lp_gain([lp_task EXCEPT !.start_time = st,
                                                          !.finish_time = ft], lp_tz)
              /\ ValidDifficulty =>
                    lp_result.value =
                        gain_for_duration(BasePoints,
                                          Val(lp_task.time_taken_minutes) * 60)
        /\ (lp_task.time_taken_minutes = None /\ ValidDifficulty) =>
              lp_result.value =
                  IF lp_task.start_time # None /\ lp_task.finish_time # None
                  THEN gain_for_duration(BasePoints,
                           InstantOf(lp_task.finish_time) - InstantOf(lp_task.start_time))
                  ELSE Some(0)

C7_Witness ==
    /\ lp_result.done
    /\ lp_task.time_taken_minutes = Some(60)
    /\ lp_task.difficulty = Some("Easy")
    /\ lp_task.start_time # None
    /\ lp_task.finish_time # None
    /\ InstantOf(lp_task.finish_time) - InstantOf(lp_task.start_time) = 450
    /\ lp_result.value = Some(4)

----
(* get_lp_status as a function of the season, the completed tasks and the clock *)

StatusHours == {0, 4, 23}

\* season starts, as instants: midnight UTC and 04:30:00 UTC of the first day
StatusStarts == {0, 4 * SECONDS_PER_HOUR + 30 * SECONDS_PER_MINUTE}

\* wall-clock readings at, one minute before and twelve hours after the
\* day_start_hour of the days 0..days
BoundaryWalls(hour, days) ==
    UNION {{d * SECONDS_PER_DAY + time_of_hour(hour) - SECONDS_PER_MINUTE,
            d * SECONDS_PER_DAY + time_of_hour(hour),
            d * SECONDS_PER_DAY + time_of_hour(hour) + 12 * SECONDS_PER_HOUR} :
           d \in 0..days}

\* a finish_time as it may be stored: aware in the season zone, aware in UTC, naive
StatusFinishes(hour, tz) ==
    {None}
    \cup {Some(Aware(w, tz)) : w \in BoundaryWalls(hour, 1)}
    \cup {Some(Aware(w - tz, 0)) : w \in BoundaryWalls(hour, 1)}
    \cup {Some(Naive(w)) : w \in BoundaryWalls(hour, 1)}

StatusTask(finish_time) ==
    [IdleTask EXCEPT !.difficulty = Some("Easy"), !.finish_time = finish_time,
                     !.time_taken_minutes = Some(MINUTES_PER_HOUR),
                     !.lp_gain = Some(LP_SCALE), !.completed = TRUE]

InitStatus ==
    /\ outcome = NoCall
    /\ recalc_streak = 0
    /\ backup_file = None
    /\ IdleLP
    /\ IdleStatus
    /\ \E zone \in DOMAIN ZoneOffset, hour \in StatusHours, start \in StatusStarts :
          /\ \E start_date \in {datetime_now(start, DEFAULT_TIMEZONE),
                                 Naive(start + SystemTz)} :
                seasons = Insert(EmptyTable, 1,
                    [SeasonRow(DEFAULT_SEASON_NAME, start_date, zone)
                         EXCEPT !.day_start_hour = hour])
          /\ now \in {w - ZoneOffset[zone] : w \in BoundaryWalls(hour, MaxDays)}
          /\ now >= start
          /\ \E n \in 0..MaxTasks :
                tasks \in [1..n -> {StatusTask(f) : f \in StatusFinishes(hour, ZoneOffset[zone])}]

\* time passes between two status calls: a minute, or exactly 24 hours
StatusLapses == {SECONDS_PER_MINUTE, SECONDS_PER_DAY}

Lapse(seconds) ==
    /\ status.called
    /\ status.error = ""
    /\ utc_seconds(status.now_in_season_tz) = now
    /\ now' = now + seconds
    /\ UNCHANGED <<seasons, tasks, outcome, recalc_streak, backup_file,
                   lp_task, lp_tz, lp_result, status, timeseries, session>>

NextStatus ==
    \/ get_lp_status(0)
    \/ \E seconds \in StatusLapses : Lapse(seconds)

SpecStatus == InitStatus /\ [][NextStatus]_vars

----
(* get_lp_status(week) over seasons that hold several tasks *)

WeekInputs == {0 - 1, 0, 1}

ReportZones == {"UTC", "Asia/Kolkata"}

ReportHours == {0, 4}

\* wall-clock readings of "now": Monday at day_start_hour, Tuesday one minute
\* before day_start_hour, Thursday at day_start_hour and twelve hours on, next
\* Monday one minute before day_start_hour
ReportNowWalls(hour) ==
    {time_of_hour(hour),
     SECONDS_PER_DAY + time_of_hour(hour) - SECONDS_PER_MINUTE,
     3 * SECONDS_PER_DAY + time_of_hour(hour),
     3 * SECONDS_PER_DAY + time_of_hour(hour) + 12 * SECONDS_PER_HOUR,
     7 * SECONDS_PER_DAY + time_of_hour(hour) - SECONDS_PER_MINUTE}

\* stored finish times (naive, as the database returns them): one minute before
\* the first day_start_hour, one minute before the second, Thursday at
\* day_start_hour; or none
ReportFinishes(hour) ==
    {None}
    \cup {Some(Naive(w)) :
            w \in {time_of_hour(hour) - SECONDS_PER_MINUTE,
                   SECONDS_PER_DAY + time_of_hour(hour) - SECONDS_PER_MINUTE,
                   3 * SECONDS_PER_DAY + time_of_hour(hour)}}

\* lp_gain values as stored: none, 1.0 and 64.0
ReportGains == {None, Some(LP_SCALE), Some(64 * LP_SCALE)}

\* a row of the tasks table: completed in the active season 2, still open in
\* season 2, or completed in the archived season 1
ReportTasks(hour) ==
    {[IdleTask EXCEPT !.difficulty = Some("Easy"), !.finish_time = f,
                      !.lp_gain = g, !.completed = k[1], !.season_id = k[2]] :
        f \in ReportFinishes(hour), g \in ReportGains,
        k \in {<<TRUE, 2>>, <<FALSE, 2>>, <<TRUE, 1>>}}

InitReport ==
    /\ outcome = NoCall
    /\ recalc_streak = 0
    /\ backup_file = None
    /\ IdleLP
    /\ IdleStatus
    /\ \E zone \in ReportZones, hour \in ReportHours :
          /\ seasons =
                 Insert(Insert(EmptyTable, 1,
                            [SeasonRow(DEFAULT_SEASON_NAME, Naive(0), "UTC")
                                 EXCEPT !.is_active = FALSE,
                                        !.end_date = Some(Naive(0))]),
                        2, [SeasonRow("Spring", Naive(0 + SystemTz), zone)
                                 EXCEPT !.day_start_hour = hour])
          /\ now \in {w - ZoneOffset[zone] : w \in ReportNowWalls(hour)}
          /\ now >= 0
          /\ \E n \in 0..(MaxTasks + 1) : tasks \in [1..n -> ReportTasks(hour)]

\* one status query per database
report(week) ==
    /\ ~status.called
    /\ get_lp_status(week)

NextReport == \E week \in WeekInputs : report(week)

SpecReport == InitReport /\ [][NextReport]_vars

----
(* The operations that need the active season, on databases with and without one *)

\* exceptions.py: AutoMLTodolistError and its subclasses
AutoMLTodolistErrors ==
    {"AutoMLTodolistError", "DatabaseError", "NoActiveSeasonError", "TaskNotFoundError",
     "SeasonNotFoundError", "ValidationError", "InvalidDifficultyError",
     "InvalidDayOfWeekError", "InvalidTimezoneError", "BackupFileNotFoundError",
     "BackupImportError"}

\* backups that leave the database without an active season: one whose only
\* season is archived, and one whose import fails after the reset
NoSeasonFiles == {"archived.json", "broken.json"}

\* the calls that look up the active season
ActiveSeasonCall ==
    \/ get_lp_status(0)
    \/ get_current_season
    \/ \E difficulty \in DifficultyInputs, duration \in DurationInputs,
          completed \in BOOLEAN, finish_time_str \in FinishStrInputs :
          create_task(difficulty, duration, completed, finish_time_str)
    \/ \E task_id \in TaskIdInputs : get_task(task_id)
    \/ \E task_id \in TaskIdInputs : start_task(task_id)
    \/ \E task_id \in TaskIdInputs : stop_task(task_id)
    \/ \E task_id \in TaskIdInputs : complete_task(task_id)
    \/ \E task_id \in TaskIdInputs, difficulty \in DifficultyInputs,
          duration \in DurationInputs, finish_time_str \in FinishStrInputs :
          update_task(task_id, difficulty, duration, finish_time_str)
    \/ recalculate_all_lp
    \/ \E decay_value \in DecayInputs : set_decay(decay_value)
    \/ \E timezone_string \in TimezoneInputs : set_timezone(timezone_string)
    \/ \E hour \in HourInputs : set_day_start_hour(hour)

\* get_active_season finds no row with is_active
NoSeason == ActiveIds(seasons) = {}

\* an import that ends without an active season, then calls that need one
NextNoSeason ==
    \/ \E filename \in NoSeasonFiles : import_data(filename)
    \/ NoSeason /\ ActiveSeasonCall
    \/ Tick

SpecNoSeason == Init /\ [][NextNoSeason]_vars

----
(* The operations that validate an argument *)

\* exceptions.py: ValidationError and its subclasses
ValidationErrors ==
    {"ValidationError", "InvalidDifficultyError", "InvalidDayOfWeekError",
     "InvalidTimezoneError"}

NextValidation ==
    \/ \E difficulty \in DifficultyInputs, duration \in DurationInputs,
          completed \in BOOLEAN, finish_time_str \in FinishStrInputs :
          create_task(difficulty, duration, completed, finish_time_str)
    \/ \E task_id \in TaskIdInputs, difficulty \in DifficultyInputs,
          duration \in DurationInputs, finish_time_str \in FinishStrInputs :
          update_task(task_id, difficulty, duration, finish_time_str)
    \/ \E timezone_string \in TimezoneInputs : set_timezone(timezone_string)
    \/ \E hour \in HourInputs : set_day_start_hour(hour)
    \/ Tick

SpecValidation == Init /\ [][NextValidation]_vars

----
(* The season operations, settings included *)

NextSettings ==
    \/ \E name \in SeasonNameInputs : create_season(name)
    \/ \E season_id \in SeasonIdInputs : switch_season(season_id)
    \/ \E decay_value \in DecayInputs : set_decay(decay_value)
    \/ \E timezone_string \in TimezoneInputs : set_timezone(timezone_string)
    \/ \E hour \in HourInputs : set_day_start_hour(hour)
    \/ Tick

SpecSettings == Init /\ [][NextSettings]_vars

----
(* Backup and restore *)

\* the files the import is pointed at: the exported backup and two older ones
BackupFiles == {"backup.json", "legacy.json", "archived.json"}

\* the one season started besides the default season
BackupSeasonNames == {"Spring"}

NextBackup ==
    \/ \E name \in BackupSeasonNames : create_season(name)
    \/ \E season_id \in SeasonIdInputs : switch_season(season_id)
    \/ \E difficulty \in DifficultyInputs, duration \in DurationInputs,
          completed \in BOOLEAN, finish_time_str \in FinishStrInputs :
          create_task(difficulty, duration, completed, finish_time_str)
    \/ \E task_id \in TaskIdInputs : start_task(task_id)
    \/ \E task_id \in TaskIdInputs : complete_task(task_id)
    \/ export_data
    \/ \E filename \in BackupFiles : import_data(filename)
    \/ Tick

SpecBackup == Init /\ [][NextBackup]_vars

----
(* database.py: get_db_session, step by step *)

\* what a session leaves alone besides the tables
SessionFrame ==
    UNCHANGED <<tasks, now, outcome, recalc_streak, backup_file, lp_task, lp_tz,
                lp_result, status, timeseries>>

\* the `with get_db_session()` blocks followed step by step: the bodies of
\* create_season(name), switch_season(season_id) and set_decay(decay_value)
SessionBodies ==
    {<<"create_season", name>> : name \in SeasonNameInputs}
        \cup {<<"switch_season", season_id>> : season_id \in SeasonIdInputs}
        \cup {<<"set_decay", decay_value>> : decay_value \in DecayInputs}

\* lines 71-74: session = SessionLocal(); yield session.
\* `work` is the seasons table as the session sees it, `before` the stored one
session_open(body) ==
    /\ session.pc \in {"idle", "closed"}
    /\ body[1] = "create_season" => Cardinality(DOMAIN seasons) < MaxSeasons
    /\ session' = [pc |-> "body", body |-> body, stage |-> 1, work |-> seasons,
                   before |-> seasons, raised |-> "", commits |-> 0, rollbacks |-> 0,
                   closes |-> 0, discarded |-> seasons, error |-> ""]
    /\ UNCHANGED seasons
    /\ SessionFrame

\* the body raised `exception`: an SQLAlchemyError or another Exception goes to
\* its except clause, a BaseException (KeyboardInterrupt) to the finally clause
SQLAlchemyErrors == {"IntegrityError", "OperationalError"}

BaseExceptions == {"KeyboardInterrupt"}

Raised(exception) ==
    [session EXCEPT !.raised = exception,
                    !.pc = IF exception \in BaseExceptions THEN "finally" ELSE "except"]

\* the body finished normally: line 75, session.commit(), is next
Returned(work) == [session EXCEPT !.work = work, !.pc = "commit"]

\* the first half of a body: the current season is deactivated in the session
body_deactivate ==
    /\ session.pc = "body"
    /\ session.stage = 1
    /\ LET work == session.work
           active == get_active_season(work)
       IN  session' =
               CASE session.body[1] = "create_season" ->
                        [session EXCEPT
                            !.stage = 2,
                            !.work = IF active = None THEN work
                                     ELSE [work EXCEPT
                                              ![Val(active)].is_active = FALSE,
                                              ![Val(active)].end_date =
                                                  Some(datetime_now(now, 0))]]
                 [] session.body[1] = "switch_season" ->
                        [session EXCEPT !.stage = 2,
                                        !.work = deactivate_current_season(work)]
                 [] OTHER -> [session EXCEPT !.stage = 2]
    /\ UNCHANGED seasons
    /\ SessionFrame

\* the second half of a body: the write, or the exception
body_finish ==
    /\ session.pc = "body"
    /\ session.stage = 2
    /\ LET work == session.work
           arg == session.body[2]
           active == get_active_season(work)
       IN  session' =
               CASE session.body[1] = "create_season" ->
                        IF \E i \in DOMAIN work : work[i].name = arg
                        THEN Raised("IntegrityError")
                        ELSE Returned(Insert(work, NextId(work),
                                 SeasonRow(arg, datetime_now(now, SystemTz),
                                           SystemTzString)))
                 [] session.body[1] = "switch_season" ->
                        IF arg \notin DOMAIN work
                        THEN Raised("SeasonNotFoundError")
                        ELSE Returned([work EXCEPT ![arg].is_active = TRUE])
                 [] OTHER ->
                        IF active = None
                        THEN Raised("NoActiveSeasonError")
                        ELSE Returned([work EXCEPT ![Val(active)].daily_decay = arg])
    /\ UNCHANGED seasons
    /\ SessionFrame

\* Ctrl-C while the body runs
body_interrupted ==
    /\ session.pc = "body"
    /\ session' = Raised("KeyboardInterrupt")
    /\ UNCHANGED seasons
    /\ SessionFrame

\* line 75: session.commit() makes the session's changes the stored ones
session_commit ==
    /\ session.pc = "commit"
    /\ session' = [session EXCEPT !.commits = @ + 1, !.pc = "finally"]
    /\ seasons' = session.work
    /\ SessionFrame

\* line 75: session.commit() raises (the database is locked)
session_commit_fails ==
    /\ session.pc = "commit"
    /\ session' = Raised("OperationalError")
    /\ UNCHANGED seasons
    /\ SessionFrame

session_rollback_keeping_changes ==
    /\ session.pc = "except"
    /\ session' = [session EXCEPT !.rollbacks = @ + 1, !.error = "DatabaseError",
                                  !.pc = "finally"]
    /\ seasons' = session.work
    /\ SessionFrame

\* lines 76-83: session.rollback() discards the session's changes, and
\* DatabaseError is raised from the exception
session_rollback ==
    /\ session.pc = "except"
    /\ session' = [session EXCEPT !.rollbacks = @ + 1, !.error = "DatabaseError",
                                  !.discarded = session.work, !.work = seasons,
                                  !.pc = "finally"]
    /\ UNCHANGED seasons
    /\ SessionFrame

\* lines 84-85: finally session.close(). A transaction still in progress (the
\* body was left by a BaseException) is rolled back by close()
session_close ==
    /\ session.pc = "finally"
    /\ LET pending == session.commits + session.rollbacks = 0
       IN  session' =
               [session EXCEPT
                   !.closes = @ + 1,
                   !.rollbacks = IF pending THEN @ + 1 ELSE @,
                   !.discarded = IF pending THEN session.work ELSE @,
                   !.work = IF pending THEN seasons ELSE @,
                   !.error = IF pending THEN session.raised ELSE @,
                   !.pc = "closed"]
    /\ UNCHANGED seasons
    /\ SessionFrame

\* the steps of a session that has been opened
SessionStep ==
    \/ body_deactivate
    \/ body_finish
    \/ body_interrupted
    \/ session_commit
    \/ session_commit_fails
    \/ session_rollback
    \/ session_close

NextSession ==
    \/ \E body \in SessionBodies : session_open(body)
    \/ SessionStep
    \/ Tick

SpecSession == Init /\ [][NextSession]_vars

\* a session that was opened runs on: the interpreter does not stop in the
\* middle of the context manager
SpecSessionFair == SpecSession /\ WF_vars(SessionStep)

----
(* The status view and the time-series view of one database at one instant *)

NextViews ==
    \/ report(0)
    \/ get_lp_timeseries_data

SpecViews == InitReport /\ [][NextViews]_vars

\* the season the status was computed for, and its zone offset
StatusSeason == seasons[MinOf(ActiveIds(seasons))]

StatusOffset == ZoneOffset[StatusSeason.timezone_string]

StatusOk(st) == st.called /\ st.error = ""

\* the season start and a stored finish_time as wall-clock readings in the season zone
StartWall ==
    LET start_date == StatusSeason.start_date
    IN  start_date.wall - (IF start_date.aware THEN start_date.off ELSE SystemTz)
        + StatusOffset

LocalWall(dt) == IF dt.aware THEN dt.wall - dt.off + StatusOffset ELSE dt.wall

\* C8: days_passed = max(0, floor((now - first_decay_point) / 24h)); it is never
\* negative, never decreases from one status to the next, and from the first
\* decay point on a status taken exactly 24 hours later counts one more
C8_DaysPassed ==
    /\ [](StatusOk(status) =>
            LET since == utc_seconds(status.now_in_season_tz)
                         - utc_seconds(status.first_decay_point_for_season)
            IN  /\ status.days_passed >= 0
                /\ status.days_passed = (IF since < 0 THEN 0 ELSE since \div 86400))
    /\ [][(StatusOk(status) /\ StatusOk(status')) =>
            /\ status'.days_passed >= status.days_passed
            /\ (/\ utc_seconds(status'.now_in_season_tz)
                       = utc_seconds(status.now_in_season_tz) + 86400
                /\ utc_seconds(status.now_in_season_tz)
                       >= utc_seconds(status.first_decay_point_for_season))
                   => status'.days_passed = status.days_passed + 1]_vars

C8_Witness ==
    /\ StatusOk(status)
    /\ status.calls = 2
    /\ status.days_passed = 2
    /\ utc_seconds(status.now_in_season_tz)
           = utc_seconds(status.first_decay_point_for_season) + 2 * 86400

\* C9: the first decay point is (start date, day_start_hour:00) in the season
\* zone, a day later if that precedes the start; so it is not before the start,
\* less than 24 hours after it, and the start itself when that is at day_start_hour:00
C9_FirstDecayPoint ==
    StatusOk(status) =>
        LET first == status.first_decay_point_for_season
            on_start_date == (StartWall \div 86400) * 86400
                             + StatusSeason.day_start_hour * 3600
        IN  /\ first.aware /\ first.off = StatusOffset
            /\ first.wall = IF on_start_date < StartWall
                            THEN on_start_date + 86400 ELSE on_start_date
            /\ first.wall >= StartWall
            /\ first.wall < StartWall + 86400
            /\ (StartWall % 86400 = StatusSeason.day_start_hour * 3600)
                   => first.wall = StartWall

C9_Witness ==
    /\ StatusOk(status)
    /\ StatusSeason.day_start_hour = 4
    /\ StartWall % 86400 > 4 * 3600
    /\ status.first_decay_point_for_season.wall \div 86400 = StartWall \div 86400 + 1

\* the calendar date whose LP day holds the wall-clock reading w:
\* the day D with D + day_start_hour:00 <= w < D + 1 day + day_start_hour:00
BucketOf(w) == (w - StatusSeason.day_start_hour * 3600) \div 86400

\* C10: a timestamp at or after day_start_hour:00 local time belongs to its own
\* date, an earlier one to the previous date; "now" and every finish_time are
\* bucketed by this one rule
C10_DayBucket ==
    StatusOk(status) =>
        /\ status.today_for_lp_gain_comparison = BucketOf(status.now_in_season_tz.wall)
        /\ \A i \in DOMAIN tasks :
              tasks[i].finish_time # None =>
                  LET w == LocalWall(Val(tasks[i].finish_time))
                  IN  /\ (i \in status.today_ids) <=>
                             (BucketOf(w) = BucketOf(status.now_in_season_tz.wall))
                      /\ (w % 86400 = StatusSeason.day_start_hour * 3600 - 60)
                             => BucketOf(w) = w \div 86400 - 1
                      /\ (w % 86400 = StatusSeason.day_start_hour * 3600)
                             => BucketOf(w) = w \div 86400

C10_Witness ==
    /\ StatusOk(status)
    /\ StatusSeason.day_start_hour = 4
    /\ \E i \in DOMAIN tasks :
          /\ tasks[i].finish_time # None
          /\ LocalWall(Val(tasks[i].finish_time)) % 86400 = 4 * 3600 - 60
          /\ i \in status.today_ids
          /\ LocalWall(Val(tasks[i].finish_time)) \div 86400
                 = status.today_for_lp_gain_comparison + 1

----
(* Stored state across service calls *)

\* the zone of the season a task belongs to
TaskZone(i) == gettz(seasons[tasks[i].season_id].timezone_string)

\* C1: after any sequence of TaskService operations every completed task's
\* stored lp_gain equals calculate_lp_gain of the task's current fields
C1_StoredGainIsRecomputed ==
    \A i \in DOMAIN tasks :
        (tasks[i].completed /\ TaskZone(i) # None)
            => tasks[i].lp_gain = calculate_lp_gain(tasks[i], Val(TaskZone(i)))

\* C2: after any sequence of create_season and switch_season calls, failed ones
\* included, exactly one season is active
C2_OneActiveSeason == Cardinality(ActiveIds(seasons)) = 1

C2_Witness ==
    /\ outcome.op = "switch_season"
    /\ outcome.status = "error"
    /\ Cardinality(DOMAIN seasons) = 3
    /\ ~seasons[1].is_active

\* C3: a service call that ends in an error leaves the stored seasons and
\* tasks as they were before the call
C3_FailureLeavesStateUntouched ==
    [][(outcome' # outcome /\ outcome'.status = "error")
           => (seasons' = seasons /\ tasks' = tasks)]_vars

\* a step that is a successful recalculate_all_lp call
RecalculateReturned == recalc_streak' >= 1 /\ now' = now

\* the completed tasks of the active season whose stored lp_gain is not the
\* value calculate_lp_gain gives for them
StaleTasks ==
    IF ActiveIds(seasons) = {} THEN {}
    ELSE {i \in DOMAIN tasks :
            /\ tasks[i].completed
            /\ tasks[i].season_id = MinOf(ActiveIds(seasons))
            /\ TaskZone(i) # None
            /\ tasks[i].lp_gain # calculate_lp_gain(normalized(tasks[i]), Val(TaskZone(i)))}

\* C4: recalculate_all_lp returns the number of completed tasks whose stored
\* lp_gain differed from the recomputed value; called again with nothing
\* changed in between it returns 0 and leaves every lp_gain as it is
C4_RecalculateIdempotent ==
    [][RecalculateReturned =>
          /\ outcome'.value = Some(Cardinality(StaleTasks))
          /\ recalc_streak >= 1 =>
                 /\ outcome'.value = Some(0)
                 /\ DOMAIN tasks' = DOMAIN tasks
                 /\ \A i \in DOMAIN tasks : tasks'[i].lp_gain = tasks[i].lp_gain]_vars

C4_Witness ==
    /\ recalc_streak = 2
    /\ outcome.op = "recalculate_all_lp"
    /\ outcome.value = Some(0)
    /\ \E i \in DOMAIN tasks :
          /\ tasks[i].completed
          /\ tasks[i].start_time # None
          /\ tasks[i].lp_gain = Some(LP_SCALE)

----
(* The figures of the status report *)

\* the completed tasks of the active season
CountedTasks ==
    {i \in DOMAIN tasks :
        tasks[i].completed /\ tasks[i].season_id = MinOf(ActiveIds(seasons))}

GainOf(i) == IF tasks[i].lp_gain = None THEN 0 ELSE Val(tasks[i].lp_gain)

RECURSIVE GainOver(_)
GainOver(ids) ==
    IF ids = {} THEN 0
    ELSE LET i == CHOOSE x \in ids : TRUE IN GainOf(i) + GainOver(ids \ {i})

\* C11: total_lp_gain is the sum of lp_gain over exactly the completed tasks of
\* the active season, total_decay = days_passed * daily_decay, net_total_lp =
\* total_lp_gain - total_decay; a season started at 00:00 with day_start_hour 0
\* and daily_decay 56 has total_decay 168.0 after 3 full days
C11_Totals ==
    StatusOk(status) =>
        /\ status.total_lp_gain = GainOver(CountedTasks)
        /\ status.total_decay = status.days_passed * StatusSeason.daily_decay * 4
        /\ status.net_total_lp = status.total_lp_gain - status.total_decay
        /\ (/\ StartWall % 86400 = 0
            /\ StatusSeason.day_start_hour = 0
            /\ StatusSeason.daily_decay = 56
            /\ status.now_in_season_tz.wall = StartWall + 3 * 86400)
               => status.total_decay = 168 * 4

C11_Witness ==
    /\ StatusOk(status)
    /\ status.days_passed = 3
    /\ status.total_decay = 168 * 4
    /\ status.total_lp_gain = 4
    /\ \E i, j \in DOMAIN tasks :
          /\ i \in CountedTasks /\ tasks[i].lp_gain = Some(4)
          /\ j \notin CountedTasks /\ tasks[j].lp_gain = Some(256)

\* the tasks counted for today: finished, and bucketed on the day "now" is bucketed on
TodayTasks ==
    {i \in CountedTasks :
        /\ tasks[i].finish_time # None
        /\ BucketOf(LocalWall(Val(tasks[i].finish_time)))
               = BucketOf(status.now_in_season_tz.wall)}

\* C12: daily_lp_gain is the sum of lp_gain over exactly the completed tasks of
\* the active season whose bucketed day is the bucketed day of now, 0.0 if
\* there is none
C12_DailyGain ==
    StatusOk(status) =>
        /\ status.daily_lp_gain = GainOver(TodayTasks)
        /\ TodayTasks = {} => status.daily_lp_gain = 0

C12_Witness ==
    /\ StatusOk(status)
    /\ status.daily_lp_gain = 4
    /\ status.total_lp_gain = 4 + 256
    /\ Cardinality(TodayTasks) = 1

\* C13: time_until_next_decay is the distance from now to the next instant
\* date + day_start_hour:00 strictly after now; it is greater than zero, at
\* most 24 hours, and a full 24 hours when now is exactly at day_start_hour:00
C13_TimeUntilNextDecay ==
    StatusOk(status) =>
        LET t == status.time_until_next_decay
            at == status.now_in_season_tz.wall
            hour == StatusSeason.day_start_hour
        IN  /\ t > 0
            /\ t <= 86400
            /\ (at + t) % 86400 = hour * 3600
            /\ (at % 86400 = hour * 3600) => t = 86400

C13_Witness ==
    /\ StatusOk(status)
    /\ StatusSeason.day_start_hour = 23
    /\ status.now_in_season_tz.wall % 86400 = 23 * 3600
    /\ status.time_until_next_decay = 86400

\* C14: breakeven_lp_gain_required = max(0, daily_decay - net_total_lp); it is
\* never negative and is 0 exactly when net_total_lp >= daily_decay
C14_Breakeven ==
    StatusOk(status) =>
        LET decay == StatusSeason.daily_decay * 4
            needed == status.breakeven_lp_gain_required
        IN  /\ needed = (IF decay - status.net_total_lp > 0
                         THEN decay - status.net_total_lp ELSE 0)
            /\ needed >= 0
            /\ (needed = 0) <=> (status.net_total_lp >= decay)

C14_Witness ==
    /\ StatusOk(status)
    /\ status.breakeven_lp_gain_required = 0
    /\ status.net_total_lp = 64 * 4 + 4
    /\ status.days_passed = 0

\* the Monday of the calendar week of now, shifted by the week offset
SelectedMonday ==
    ((status.now_in_season_tz.wall \div 86400) \div 7) * 7 + 7 * status.week

\* the completed tasks of the active season bucketed on the date
TasksOn(date) ==
    {i \in CountedTasks :
        /\ tasks[i].finish_time # None
        /\ BucketOf(LocalWall(Val(tasks[i].finish_time))) = date}

\* C15: the weekday breakdown has all seven weekdays Mon..Sun; each holds the
\* sum of lp_gain over the completed tasks bucketed on that weekday of the
\* selected Monday-to-Sunday week, and tasks bucketed outside it count nowhere
C15_WeekdayBreakdown ==
    StatusOk(status) =>
        /\ DOMAIN status.lp_by_day = {"Mon", "Tue", "Wed", "Thu", "Fri", "Sat", "Sun"}
        /\ \A d \in 0..6 :
              status.lp_by_day[<<"Mon", "Tue", "Wed", "Thu", "Fri", "Sat", "Sun">>[d + 1]]
                  = GainOver(TasksOn(SelectedMonday + d))

C15_Witness ==
    /\ StatusOk(status)
    /\ status.week = 0 - 1
    /\ status.lp_by_day["Sun"] = 4
    /\ status.lp_by_day["Mon"] = 0
    /\ status.total_lp_gain = 4 + 256
    /\ \A i \in CountedTasks : tasks[i].finish_time # None

\* C16: the result of get_lp_status has every field of its contract:
\* total_lp_gain, total_decay, net_total_lp, daily_lp_gain, days_passed,
\* breakeven_lp_gain_required, time_until_next_decay and lp_by_day_of_week
C16_ContractFields ==
    StatusOk(status) =>
        {"total_lp_gain", "total_decay", "net_total_lp", "daily_lp_gain",
         "days_passed", "breakeven_lp_gain_required", "time_until_next_decay",
         "lp_by_day_of_week"} \subseteq status.keys

\* C16 (as the code has it): the result of get_lp_status has exactly the fields
\* total_lp_gain, total_decay, net_total_lp, daily_lp_gain, time_until_next_decay,
\* breakeven_lp_gain_required, lp_by_day, season_name, week, weekly_lp_total,
\* weekly_decay and weekly_delta: days_passed is computed but not returned, and
\* the weekday breakdown is returned under the name lp_by_day
C16_ResultFields ==
    StatusOk(status) =>
        status.keys =
            {"total_lp_gain", "total_decay", "net_total_lp", "daily_lp_gain",
             "time_until_next_decay", "breakeven_lp_gain_required", "lp_by_day",
             "season_name", "week", "weekly_lp_total", "weekly_decay", "weekly_delta"}

C16_Witness ==
    /\ StatusOk(status)
    /\ status.days_passed > 0
    /\ "days_passed" \notin status.keys
    /\ "lp_by_day" \in status.keys
    /\ \E day \in DOMAIN status.lp_by_day : status.lp_by_day[day] = 4

\* the call of this step ended in an exception of one of the classes `errors`
EndsIn(errors) ==
    IF status' # status
    THEN status'.called /\ status'.error \in errors
    ELSE outcome'.status = "error" /\ outcome'.error \in errors

\* C17: when no season is active, every operation that needs the active season
\* (get_lp_status, get_current_season, create_task, get_task, start_task,
\* stop_task, complete_task, update_task, recalculate_all_lp, set_decay,
\* set_timezone, set_day_start_hour) ends in an AutoMLTodolistError and changes
\* no stored season or task
C17_NoSeasonAborts ==
    [][(NoSeason /\ ActiveSeasonCall) =>
           /\ EndsIn(AutoMLTodolistErrors)
           /\ seasons' = seasons
           /\ tasks' = tasks]_vars

\* C17 (as the code has it): when no season is active, each of those operations
\* changes no stored season or task and ends in an AutoMLTodolistError, except
\* that set_day_start_hour with an hour outside 0..23 ends in a ValueError;
\* with a valid hour it ends in DatabaseError caused by NoActiveSeasonError
C17_NoSeasonAbortsOrValueError ==
    [][/\ (NoSeason /\ ActiveSeasonCall) =>
              /\ seasons' = seasons
              /\ tasks' = tasks
              /\ \/ EndsIn(AutoMLTodolistErrors)
                 \/ \E hour \in HourInputs :
                        /\ hour \notin 0..23
                        /\ set_day_start_hour(hour)
                        /\ outcome'.error = "ValueError"
       /\ (NoSeason /\ \E hour \in HourInputs \cap 0..23 : set_day_start_hour(hour)) =>
              /\ outcome'.error = "DatabaseError"
              /\ outcome'.cause = "NoActiveSeasonError"]_vars

C17_Witness ==
    /\ NoSeason
    /\ DOMAIN seasons # {}
    /\ DOMAIN tasks # {}
    /\ outcome.op = "set_decay"
    /\ outcome.error = "DatabaseError"
    /\ outcome.cause = "NoActiveSeasonError"
    /\ status.called
    /\ status.error = "DatabaseError"

\* a call with an invalid argument: a difficulty outside 1..5, a zone name that
\* is not in the IANA database, an hour outside 0..23
InvalidCall ==
    \/ \E difficulty \in DifficultyInputs, duration \in DurationInputs,
          completed \in BOOLEAN, finish_time_str \in FinishStrInputs :
          /\ difficulty # None
          /\ Val(difficulty) \notin 1..5
          /\ create_task(difficulty, duration, completed, finish_time_str)
    \/ \E task_id \in TaskIdInputs, difficulty \in DifficultyInputs,
          duration \in DurationInputs, finish_time_str \in FinishStrInputs :
          /\ difficulty # None
          /\ Val(difficulty) \notin 1..5
          /\ update_task(task_id, difficulty, duration, finish_time_str)
    \/ \E timezone_string \in TimezoneInputs :
          /\ timezone_string \notin DOMAIN ZoneOffset
          /\ set_timezone(timezone_string)
    \/ \E hour \in HourInputs :
          /\ hour \notin 0..23
          /\ set_day_start_hour(hour)

\* C18: invalid input is rejected before any mutation: create_task or update_task
\* with a difficulty outside 1..5, set_timezone with a string that is not a known
\* IANA zone, and set_day_start_hour with an hour outside 0..23 each fail with a
\* validation error (a ValidationError, or the ValueError that the CLI reports as
\* a validation error) and leave every stored season and task unchanged
C18_InvalidInputRejected ==
    [][InvalidCall =>
           /\ outcome'.status = "error"
           /\ outcome'.error \in ValidationErrors \cup {"ValueError"}
           /\ outcome'.txn = "none"
           /\ seasons' = seasons
           /\ tasks' = tasks]_vars

\* C19: in every state reachable through create_season, switch_season, set_decay,
\* set_timezone and set_day_start_hour, every season's daily_decay is
\* non-negative
C19_DecayNonNegative ==
    \A i \in DOMAIN seasons : seasons[i].daily_decay >= 0

\* C20: no season is deleted by create_season or switch_season: after any such
\* call, successful or failed, every season that existed before still exists
\* with the same id and name; a successful create_season adds exactly one new
\* season, and a failed one adds none
C20_NoSeasonDeleted ==
    [][/\ \A i \in DOMAIN seasons :
              /\ i \in DOMAIN seasons'
              /\ seasons'[i].name = seasons[i].name
       /\ (\E name \in SeasonNameInputs : create_season(name)) =>
              IF outcome'.status = "ok"
              THEN Cardinality(DOMAIN seasons' \ DOMAIN seasons) = 1
              ELSE seasons' = seasons
       /\ (\E season_id \in SeasonIdInputs : switch_season(season_id)) =>
              DOMAIN seasons' = DOMAIN seasons]_vars

C20_Witness ==
    /\ Cardinality(DOMAIN seasons) = 3
    /\ outcome.op = "switch_season"
    /\ outcome.status = "ok"
    /\ seasons[1].is_active
    /\ seasons[1].name = DEFAULT_SEASON_NAME
    /\ seasons[2].name = "Summer"
    /\ seasons[3].name = "Spring"

NoSuchTask(task_id) ==
    /\ ~NoSeason
    /\ ~(task_id \in DOMAIN tasks
          /\ tasks[task_id].season_id = Val(get_active_season(seasons)))

\* a call by an id that matches no task of the current season
TaskLookupFails ==
    \E task_id \in TaskIdInputs :
       /\ NoSuchTask(task_id)
       /\ \/ get_task(task_id)
          \/ start_task(task_id)
          \/ stop_task(task_id)
          \/ complete_task(task_id)
          \/ \E duration \in DurationInputs, finish_time_str \in FinishStrInputs :
                update_task(task_id, None, duration, finish_time_str)

\* C22: lookup failures reach the caller as their documented error: switch_season
\* with an id that matches no season raises SeasonNotFoundError, and get_task,
\* start_task, stop_task, complete_task and update_task with an id that matches
\* no task of the current season raise TaskNotFoundError
C22_LookupErrorKind ==
    [][/\ (\E season_id \in SeasonIdInputs :
              season_id \notin DOMAIN seasons /\ switch_season(season_id)) =>
              outcome'.error = "SeasonNotFoundError"
       /\ TaskLookupFails => outcome'.error = "TaskNotFoundError"]_vars

\* C23: in every state reachable through create_season and switch_season, the
\* active season has end_date = None
C23_ActiveSeasonHasNoEndDate ==
    \A i \in ActiveIds(seasons) : seasons[i].end_date = None

ViewsComparable ==
    \A i \in CountedTasks :
        /\ tasks[i].lp_gain # None
        /\ tasks[i].finish_time # None
        /\ LocalWall(Val(tasks[i].finish_time)) >= StartWall
        /\ LocalWall(Val(tasks[i].finish_time)) <= status.now_in_season_tz.wall

\* C25: for the same active season, the same completed tasks (each with an
\* lp_gain and a finish_time between season start and now) and the same now, the
\* last cumulative_lp of get_lp_timeseries_data equals net_total_lp of
\* get_lp_status
C25_ViewsAgree ==
    (/\ StatusOk(status)
     /\ timeseries.called /\ timeseries.error = "" /\ ~timeseries.empty
     /\ ViewsComparable)
        => timeseries.cumulative_lp = status.net_total_lp

\* C26: for week offset 0, today's bucketed day lies inside the selected week
\* window, and the breakdown's entry for the weekday of today's bucketed day
\* equals daily_lp_gain
C26_TodayInsideWeek ==
    (StatusOk(status) /\ status.week = 0) =>
        LET today == status.today_for_lp_gain_comparison
        IN  /\ SelectedMonday <= today
            /\ today <= SelectedMonday + 6
            /\ status.lp_by_day[strftime_a(today)] = status.daily_lp_gain

\* C27: for every week offset, every now and every season with at least one
\* completed task, weekly_decay is less than or equal to total_decay
C27_WeeklyDecayWithinTotal ==
    (StatusOk(status) /\ CountedTasks # {}) =>
        status.weekly_decay <= status.total_decay
\* a call by the id of a task that belongs to an archived season
ArchivedTaskCall ==
    \E task_id \in TaskIdInputs :
       /\ task_id \in DOMAIN tasks
       /\ tasks[task_id].season_id \notin ActiveIds(seasons)
       /\ \/ get_task(task_id)
          \/ start_task(task_id)
          \/ stop_task(task_id)
          \/ complete_task(task_id)
          \/ \E difficulty \in DifficultyInputs, duration \in DurationInputs,
                finish_time_str \in FinishStrInputs :
                update_task(task_id, difficulty, duration, finish_time_str)
          \/ delete_task(task_id)

\* C28: get_task, start_task, stop_task, complete_task, update_task and
\* delete_task, given the id of a task that belongs to an archived season, each
\* fail, and no task is changed or removed
C28_ArchivedTasksUntouched ==
    [][ArchivedTaskCall => (outcome'.status = "error" /\ tasks' = tasks)]_vars
\* C29: complete_task never overwrites a finish_time that is already recorded,
\* and it is idempotent: complete_task applied again to the task it has just
\* completed (at the same or a later time) changes nothing, so completed,
\* finish_time and lp_gain stay as the first application left them
C29_CompleteTaskIdempotent ==
    [][\A task_id \in TaskIdInputs :
          /\ (complete_task(task_id) /\ outcome'.status = "ok"
                 /\ tasks[task_id].finish_time # None) =>
                 tasks'[task_id].finish_time = tasks[task_id].finish_time
          /\ (outcome = Committed("complete_task", Some(task_id))
                 /\ complete_task(task_id)) =>
                 /\ outcome' = outcome
                 /\ tasks' = tasks]_vars

C29_Witness ==
    /\ outcome = Committed("complete_task", Some(1))
    /\ now = ClockStep
    /\ tasks[1].completed
    /\ tasks[1].lp_gain # None
    /\ tasks[1].start_time # None
    /\ tasks[1].finish_time # None
    /\ utc_seconds(Val(tasks[1].finish_time)) = 0
\* C30: in every state reached through create_task, start_task, stop_task,
\* complete_task and update_task, every completed task has a finish_time (so
\* its day bucket is defined), and no step turns a completed task back into
\* an incomplete one
C30_CompletedHasFinishTime ==
    /\ [](\A task_id \in DOMAIN tasks :
             tasks[task_id].completed => tasks[task_id].finish_time # None)
    /\ [][\A task_id \in DOMAIN tasks :
              tasks[task_id].completed =>
                  /\ task_id \in DOMAIN tasks'
                  /\ tasks'[task_id].completed
                  /\ tasks'[task_id].finish_time # None]_vars

C30_Witness ==
    /\ outcome = Committed("update_task", Some(1))
    /\ tasks[1].completed
    /\ tasks[1].finish_time # None
    /\ tasks[1].start_time # None
    /\ utc_seconds(Val(tasks[1].finish_time)) < now

====
